---- MODULE Spec2Model ----
(***************************************************************************)
(* Model of scripts/gz10/gz10.py: the GZ10 dataset builder.                *)
(*                                                                         *)
(* _split_generators turns config.data_files into split generators;        *)
(* _generate_examples is a generator that walks the files of one split,    *)
(* opens each HDF5 shard in a `with` block, builds an argsort index over   *)
(* its object_id column and yields one (key, example) pair per requested   *)
(* identifier.  The contents of a shard and the entry object_ids[j] are    *)
(* inputs: they are drawn when the code first reads them.                  *)
(*                                                                         *)
(* Row positions (i, the entries of sort_index, searchsorted results) and  *)
(* the file counter j are 0-based as in the source; TLA+ sequences are     *)
(* 1-based, so row r of a column c is c[r + 1].                            *)
(***************************************************************************)
EXTENDS Integers, Sequences, FiniteSets, TLC

VARIABLES
    config_name,   \* self.config.name
    data_files,    \* self.config.data_files
    splits,        \* the list returned by _split_generators
    pc,            \* where the builder / the generator stands
    err,           \* the exception surfaced to the caller ("" when none)
    files,         \* _generate_examples' argument files
    given,         \* object_ids is not None
    object_ids,    \* the entries object_ids[0..] the generator has read
    disk,          \* the contents of the files the generator has opened
    j,             \* enumerate counter of the for loop over files
    handles,       \* the open h5py.File handles (by file counter)
    keys,          \* local keys
    sort_index,    \* local sort_index
    sorted_ids,    \* local sorted_ids
    pos,           \* how many elements of keys the inner for loop consumed
    i,             \* local i
    out,           \* the (key, example) pairs yielded so far
    builds         \* how often line 142 ran since the current shard opened

vars == <<config_name, data_files, splits, pc, err, files, given, object_ids,
          disk, j, handles, keys, sort_index, sorted_ids, pos, i, out, builds>>

(***************************************************************************)
(* Bounds of the model.                                                    *)
(***************************************************************************)
\* files on disk (and so in one split)
MaxFiles == 2
\* rows over all shards of one traversal
MaxRows == 2
\* identifiers requested over all shards of one traversal
MaxKeys == 2

\* identifiers stored in shards, and identifiers a caller asks for
StoredIds == {3, 12}
RequestIds == {7, 12}

Range(s) == {s[q] : q \in DOMAIN s}

SeqsUpTo(S, n) == UNION {[1..m -> S] : m \in 0..n}

RECURSIVE SumLen(_)
SumLen(ss) == IF ss = <<>> THEN 0 ELSE Len(Head(ss)) + SumLen(Tail(ss))

(***************************************************************************)
(* Configuration and schema.                                               *)
(***************************************************************************)
ConfigNames == {"gz10", "gz10_rgb_images"}

Columns == {"object_id", "ans", "redshift", "images", "pxscale"}

\* _info: the declared features of the active configuration
Features(name) ==
    {"gz10_label", "redshift", "object_id"}
        \cup (IF name = "gz10_rgb_images"
              THEN {"rgb_image", "rgb_pixel_scale"}
              ELSE {})

\* a body whose reads of the other columns never raise
ColumnsReadIdsOnly(name) == {"object_id"}

\* the columns one pass through the body of the inner loop reads
ColumnsRead(name) ==
    {"ans", "redshift", "object_id"}
        \cup (IF name = "gz10_rgb_images" THEN {"images", "pxscale"} ELSE {})

(***************************************************************************)
(* Conversions.                                                            *)
(***************************************************************************)
\* .astype(np.int32): the value as a 32 bit integer (every label of the
\* model lies within the 32 bit range, so no wrap-around occurs)
Int32(x) == [dtype |-> "int32", value |-> x]

\* nearest integer with a 24 bit mantissa
RECURSIVE Round24(_)
Round24(x) ==
    IF x < 0 THEN 0 - Round24(0 - x)
    ELSE IF x < 16777216 THEN x
    ELSE 2 * Round24((x + 1) \div 2)

\* .astype(np.float32) of a redshift held in thousandths
Float32(x) == [dtype |-> "float32", value |-> Round24(x)]

\* str() of an integer identifier: its decimal digits
RECURSIVE Digits(_)
Digits(n) == IF n < 10 THEN <<n>> ELSE Append(Digits(n \div 10), n % 10)

Str(x) == IF x < 0 THEN <<"-">> \o Digits(0 - x) ELSE Digits(x)

(***************************************************************************)
(* The sort index.                                                         *)
(***************************************************************************)
\* an index that sorts the wrong way round
ArgSortDescending(ids) ==
    {p \in [1..Len(ids) -> 0..(Len(ids) - 1)] :
        /\ \A a, b \in 1..Len(ids) : a # b => p[a] # p[b]
        /\ \A a \in 1..(Len(ids) - 1) : ids[p[a] + 1] >= ids[p[a + 1] + 1]}

\* an index that leaves the rows in storage order
ArgSortIdentity(ids) == {[q \in 1..Len(ids) |-> q - 1]}

\* np.argsort(ids) with the default kind ("quicksort", not a stable sort):
\* some permutation of the row positions that puts ids in ascending order;
\* the order among equal identifiers is not fixed.
ArgSort(ids) ==
    {p \in [1..Len(ids) -> 0..(Len(ids) - 1)] :
        /\ \A a, b \in 1..Len(ids) : a # b => p[a] # p[b]
        /\ \A a \in 1..(Len(ids) - 1) : ids[p[a] + 1] <= ids[p[a + 1] + 1]}

\* col[:][idx]: the rows of col in the order idx gives
Take(col, idx) == [q \in 1..Len(idx) |-> col[idx[q] + 1]]

\* np.searchsorted(a, v) (side="left"): binary search for the first
\* position whose element is not below v; Len(a) when there is none
RECURSIVE BinSearchLeft(_, _, _, _)
BinSearchLeft(a, v, lo, hi) ==
    IF lo >= hi THEN lo
    ELSE LET mid == lo + ((hi - lo) \div 2)
         IN  IF a[mid + 1] < v
             THEN BinSearchLeft(a, v, mid + 1, hi)
             ELSE BinSearchLeft(a, v, lo, mid)

\* side="right": the first position whose element is above v
SearchSortedRight(a, v) ==
    Cardinality({q \in 1..Len(a) : a[q] <= v})

SearchSorted(a, v) == BinSearchLeft(a, v, 0, Len(a))

(***************************************************************************)
(* Shards.  A shard is a function from the column names it holds to        *)
(* columns of equal length.  Every row carries values of its own in every  *)
(* column, so a value read from a column tells the row it was read from.   *)
(***************************************************************************)
MakeShard(ids, missing) ==
    [c \in Columns \ missing |->
        CASE c = "object_id" -> ids
          [] c = "ans"       -> [r \in 1..Len(ids) |-> (r - 1) % 10]
          [] c = "redshift"  -> [r \in 1..Len(ids) |-> 100 * r]
          [] c = "images"    -> [r \in 1..Len(ids) |-> 1000 + r]
          [] c = "pxscale"   -> [r \in 1..Len(ids) |-> 262 + r]]

\* a shard is complete, or lacks one column; at most one shard of a
\* traversal is incomplete
MissingChoices(ds) ==
    IF \A n \in 1..Len(ds) : DOMAIN ds[n] = Columns
    THEN {{}} \cup {{c} : c \in Columns}
    ELSE {{}}

NRows(d) == Len(d[CHOOSE c \in DOMAIN d : TRUE])

RECURSIVE RowsUsed(_)
RowsUsed(ds) == IF ds = <<>> THEN 0 ELSE NRows(Head(ds)) + RowsUsed(Tail(ds))

\* data[c][row]; the loop body reaches it only for a column the shard
\* holds, a read of any other column having raised KeyError
Cell(data, c, row) == IF c \in DOMAIN data THEN data[c][row + 1] ELSE -1

\* a body that adds the image fields under every configuration
ExampleAlwaysImages(data, row, name) ==
    ("object_id" :> Str(Cell(data, "object_id", row)))
        @@ ("rgb_image" :> Cell(data, "images", row))
        @@ ("rgb_pixel_scale" :> Cell(data, "pxscale", row))
        @@ ("gz10_label" :> Int32(Cell(data, "ans", row)))
        @@ ("redshift" :> Float32(Cell(data, "redshift", row)))

\* example = {...}; example[...] = ...: the dict built at lines 149-161
\* from row `row` of the open shard
Example(data, row, name) ==
    LET base == ("gz10_label" :> Int32(Cell(data, "ans", row)))
                    @@ ("redshift" :> Float32(Cell(data, "redshift", row)))
        imgs == IF name = "gz10_rgb_images"
                THEN ("rgb_image" :> Cell(data, "images", row))
                         @@ ("rgb_pixel_scale" :> Cell(data, "pxscale", row))
                         @@ base
                ELSE base
    IN  ("object_id" :> Str(Cell(data, "object_id", row))) @@ imgs

\* a generator that drops a pair whose key it has yielded before
YieldDedup(o, key, example) ==
    IF \E n \in 1..Len(o) : o[n][1] = key THEN o ELSE Append(o, <<key, example>>)

\* yield str(data["object_id"][i]), example
Yield(o, key, example) == Append(o, <<key, example>>)

\* a with block that keeps the file open
ExitWithLeak(hs, h) == hs

\* leaving the with block releases the handle
ExitWith(hs, h) == hs \ {h}

(***************************************************************************)
(* _split_generators.                                                      *)
(***************************************************************************)
\* config.data_files: None, or a dict given as the sequence of its items;
\* the files of an item are one path (a str) or a list of paths
PathList(a, b) == [q \in 1..(b - a + 1) |-> a + q - 1]

FilesChoices(a, b) ==
    {[kind |-> "list", path |-> 0, paths |-> PathList(a, b)]}
        \cup (IF a = b THEN {[kind |-> "str", path |-> a, paths |-> <<>>]} ELSE {})

DataFilesChoices ==
    {[is_none |-> TRUE, items |-> <<>>], [is_none |-> FALSE, items |-> <<>>]}
    \cup {[is_none |-> FALSE, items |-> <<[name |-> "train", files |-> f]>>] :
            f \in UNION {FilesChoices(1, n) : n \in 0..MaxFiles}}
    \cup {[is_none |-> FALSE,
           items |-> <<[name |-> "train", files |-> f],
                       [name |-> "test", files |-> g]>>] :
            f \in FilesChoices(1, 1), g \in FilesChoices(2, MaxFiles)}

\* not self.config.data_files
Falsy(df) == df.is_none \/ df.items = <<>>

\* a loop that leaves a str as it is
WrapFilesNoWrap(f) == f.paths

\* if isinstance(files, str): files = [files]
WrapFiles(f) == IF f.kind = "str" THEN <<f.path>> ELSE f.paths

SplitGenerator(name, fs) == [name |-> name, gen_kwargs |-> [files |-> fs]]

SplitGenerators ==
    /\ pc = "configured"
    /\ IF Falsy(data_files)
       THEN /\ pc' = "config_error"
            /\ err' = "ValueError"
            /\ splits' = <<>>
       ELSE /\ pc' = "split_done"
            /\ err' = err
            /\ splits' = [e \in 1..Len(data_files.items) |->
                            SplitGenerator(data_files.items[e].name,
                                           WrapFiles(data_files.items[e].files))]
    /\ UNCHANGED <<config_name, data_files, files, given, object_ids, disk, j,
                   handles, keys, sort_index, sorted_ids, pos, i, out, builds>>

(***************************************************************************)
(* _generate_examples.                                                     *)
(***************************************************************************)
\* the call: the framework passes one split's gen_kwargs (object_ids=None);
\* other callers pass object_ids as well.  No line of the body runs yet.
GenerateExamples ==
    /\ pc = "split_done"
    /\ \E s \in 1..Len(splits), g \in BOOLEAN :
          /\ files' = splits[s].gen_kwargs.files
          /\ given' = g
    /\ j' = 0
    /\ pc' = "loop"
    /\ UNCHANGED <<config_name, data_files, splits, err, object_ids, disk,
                   handles, keys, sort_index, sorted_ids, pos, i, out, builds>>

\* h5py.File(file_path, "r") raises: nothing was opened
OpenFail ==
    /\ pc = "loop"
    /\ j < Len(files)
    /\ pc' = "error"
    /\ err' = "OSError"
    /\ UNCHANGED <<config_name, data_files, splits, files, given, object_ids,
                   disk, j, handles, keys, sort_index, sorted_ids, pos, i, out,
                   builds>>

\* lines 134-139: open the next shard and pick its keys
OpenShard ==
    /\ pc = "loop"
    /\ j < Len(files)
    /\ \E ids \in SeqsUpTo(StoredIds, MaxRows - RowsUsed(disk)),
          missing \in MissingChoices(disk) :
          LET data == MakeShard(ids, missing)
          IN  /\ disk' = Append(disk, data)
              /\ IF given
                 THEN \/ \E ks \in SeqsUpTo(RequestIds, MaxKeys - SumLen(object_ids)) :
                            /\ object_ids' = Append(object_ids, ks)
                            /\ keys' = ks
                            /\ handles' = handles \cup {j}
                            /\ pc' = "opened"
                            /\ err' = err
                      \/ \* object_ids has no entry j
                         /\ handles' = ExitWith(handles \cup {j}, j)
                         /\ pc' = "error"
                         /\ err' = "IndexError"
                         /\ UNCHANGED <<object_ids, keys>>
                 ELSE IF "object_id" \in DOMAIN data
                      THEN /\ keys' = data["object_id"]
                           /\ handles' = handles \cup {j}
                           /\ pc' = "opened"
                           /\ UNCHANGED <<object_ids, err>>
                      ELSE /\ handles' = ExitWith(handles \cup {j}, j)
                           /\ pc' = "error"
                           /\ err' = "KeyError"
                           /\ UNCHANGED <<object_ids, keys>>
    /\ builds' = 0
    /\ UNCHANGED <<config_name, data_files, splits, files, given, j,
                   sort_index, sorted_ids, pos, i, out>>

\* lines 142-143: the index of the open shard
BuildIndex ==
    /\ pc = "opened"
    /\ LET data == disk[j + 1]
       IN  IF "object_id" \in DOMAIN data
           THEN /\ \E p \in ArgSort(data["object_id"]) :
                      /\ sort_index' = p
                      /\ sorted_ids' = Take(data["object_id"], p)
                /\ builds' = builds + 1
                /\ pos' = 0
                /\ pc' = "indexed"
                /\ UNCHANGED <<err, handles>>
           ELSE /\ handles' = ExitWith(handles, j)
                /\ pc' = "error"
                /\ err' = "KeyError"
                /\ UNCHANGED <<sort_index, sorted_ids, builds, pos>>
    /\ UNCHANGED <<config_name, data_files, splits, files, given, object_ids,
                   disk, j, keys, i, out>>

\* lines 145-163: the next k of keys, up to the yield
NextExample ==
    /\ pc = "indexed"
    /\ pos < Len(keys)
    /\ LET data == disk[j + 1]
           k == keys[pos + 1]
           p == SearchSorted(sorted_ids, k)
       IN  IF p >= Len(sort_index)
           THEN /\ handles' = ExitWith(handles, j)
                /\ pc' = "error"
                /\ err' = "IndexError"
                /\ UNCHANGED <<i, out, pos>>
           ELSE /\ i' = sort_index[p + 1]
                /\ IF ColumnsRead(config_name) \subseteq DOMAIN data
                   THEN /\ out' = Yield(out, Str(Cell(data, "object_id", i')),
                                         Example(data, i', config_name))
                        /\ pos' = pos + 1
                        /\ pc' = "yielded"
                        /\ UNCHANGED <<err, handles>>
                   ELSE /\ handles' = ExitWith(handles, j)
                        /\ pc' = "error"
                        /\ err' = "KeyError"
                        /\ UNCHANGED <<out, pos>>
    /\ UNCHANGED <<config_name, data_files, splits, files, given, object_ids,
                   disk, j, keys, sort_index, sorted_ids, builds>>

\* the caller asks for the next pair: the generator resumes after the yield
Pull ==
    /\ pc = "yielded"
    /\ pc' = "indexed"
    /\ UNCHANGED <<config_name, data_files, splits, err, files, given,
                   object_ids, disk, j, handles, keys, sort_index, sorted_ids,
                   pos, i, out, builds>>

\* keys is exhausted: the with block ends and the outer loop moves on
CloseShard ==
    /\ pc = "indexed"
    /\ pos = Len(keys)
    /\ handles' = ExitWith(handles, j)
    /\ j' = j + 1
    /\ pc' = "loop"
    /\ UNCHANGED <<config_name, data_files, splits, err, files, given,
                   object_ids, disk, keys, sort_index, sorted_ids, pos, i, out,
                   builds>>

\* files is exhausted: the generator returns
Finish ==
    /\ pc = "loop"
    /\ j = Len(files)
    /\ pc' = "done"
    /\ UNCHANGED <<config_name, data_files, splits, err, files, given,
                   object_ids, disk, j, handles, keys, sort_index, sorted_ids,
                   pos, i, out, builds>>

\* the caller stops pulling and closes the generator: GeneratorExit is
\* raised at the yield and leaves the with block
Abandon ==
    /\ pc = "yielded"
    /\ handles' = ExitWith(handles, j)
    /\ pc' = "closed"
    /\ UNCHANGED <<config_name, data_files, splits, err, files, given,
                   object_ids, disk, j, keys, sort_index, sorted_ids, pos, i,
                   out, builds>>

Init ==
    /\ config_name \in ConfigNames
    /\ data_files \in DataFilesChoices
    /\ splits = <<>>
    /\ pc = "configured"
    /\ err = ""
    /\ files = <<>>
    /\ given = FALSE
    /\ object_ids = <<>>
    /\ disk = <<>>
    /\ j = 0
    /\ handles = {}
    /\ keys = <<>>
    /\ sort_index = <<>>
    /\ sorted_ids = <<>>
    /\ pos = 0
    /\ i = 0
    /\ out = <<>>
    /\ builds = 0

Next ==
    \/ SplitGenerators
    \/ GenerateExamples
    \/ OpenFail
    \/ OpenShard
    \/ BuildIndex
    \/ NextExample
    \/ Pull
    \/ CloseShard
    \/ Finish
    \/ Abandon

Spec == Init /\ [][Next]_vars

(***************************************************************************)
(* Properties.                                                             *)
(***************************************************************************)
\* the shard the generator has open, and its identifier column
Data == disk[j + 1]
Ids == Data["object_id"]

\* at a yield: the identifier the pair was produced for, and the pair
K == keys[pos]
Pair == out[Len(out)]

RowsHolding(ids, k) == {r \in 0..(Len(ids) - 1) : ids[r + 1] = k}

Least(S) == CHOOSE x \in S : \A y \in S : x <= y

\* the identifiers supplied for the shard at position n of files
KeysOf(n) == IF given THEN object_ids[n] ELSE disk[n]["object_id"]

RECURSIVE Supplied(_)
Supplied(n) == IF n = 0 THEN 0 ELSE Supplied(n - 1) + Len(KeysOf(n))

\* the columns the active variant requires of a shard
RequiredColumns ==
    IF config_name = "gz10_rgb_images"
    THEN {"object_id", "ans", "redshift", "images", "pxscale"}
    ELSE {"object_id", "ans", "redshift"}

Deficient(d) == ~(RequiredColumns \subseteq DOMAIN d)

\* C1: when the requested identifier k occurs in the shard's object_id
\* column, the lookup yields a row r holding k, and every field of the
\* yielded record is the value of row r of its column.
C1_PresentKeyResolvesToItsRow ==
    (pc = "yielded" /\ K \in Range(Ids)) =>
        \E r \in RowsHolding(Ids, K) :
            /\ i = r
            /\ Pair[2]["gz10_label"] = [dtype |-> "int32", value |-> Data["ans"][r + 1]]
            /\ Pair[2]["redshift"] =
                   [dtype |-> "float32", value |-> Data["redshift"][r + 1]]
            /\ Pair[2]["object_id"] = Str(K)
            /\ config_name = "gz10_rgb_images" =>
                   /\ Pair[2]["rgb_image"] = Data["images"][r + 1]
                   /\ Pair[2]["rgb_pixel_scale"] = Data["pxscale"][r + 1]

\* a requested identifier found in a shard stored out of order
C1_Witness ==
    /\ pc = "yielded"
    /\ given
    /\ K \in Range(Ids)
    /\ sort_index[1] # 0
    /\ config_name = "gz10_rgb_images"

\* C2: a requested identifier that does not occur in the shard's object_id
\* column never has a record yielded for it.
C2_AbsentKeyYieldsNothing ==
    pc = "yielded" => K \in Range(Ids)

C4_RecordFieldsMatchInfo ==
    \A n \in 1..Len(out) :
        DOMAIN out[n][2] =
            (IF config_name = "gz10_rgb_images"
             THEN {"gz10_label", "redshift", "object_id", "rgb_image", "rgb_pixel_scale"}
             ELSE {"gz10_label", "redshift", "object_id"})
        /\ DOMAIN out[n][2] = Features(config_name)

\* a column read failed after records had been yielded
C4_Witness ==
    /\ pc = "error"
    /\ err = "KeyError"
    /\ Len(out) >= 1
    /\ config_name = "gz10_rgb_images"
    /\ "pxscale" \notin DOMAIN Data

\* C5: the key and the object_id field of every yielded pair are the string
\* of the identifier that was requested or enumerated.
C5_KeyIsRequestedIdentifier ==
    pc = "yielded" => (Pair[1] = Str(K) /\ Pair[2]["object_id"] = Str(K))

\* the key the lookup of identifier k in a shard leads to: the smallest
\* stored identifier that is not below k
KeyFor(d, k) == Str(Least({x \in Range(d["object_id"]) : x >= k}))

RECURSIVE ExpectedKeys(_)
ExpectedKeys(n) ==
    IF n = 0 THEN <<>>
    ELSE ExpectedKeys(n - 1) \o [q \in 1..Len(KeysOf(n)) |-> KeyFor(disk[n], KeysOf(n)[q])]

\* C6: an error-free traversal yields, shard after shard in file order, one
\* pair per supplied identifier in the order supplied.
C6_EmissionOrder ==
    pc = "done" =>
        /\ Len(out) = Supplied(Len(files))
        /\ [n \in 1..Len(out) |-> out[n][1]] = ExpectedKeys(Len(files))
        /\ \A n \in 1..Len(out) : out[n][2]["object_id"] = out[n][1]

\* two shards enumerated in file order although their identifiers descend
C6_Witness ==
    /\ pc = "done"
    /\ Len(files) = 2
    /\ Len(out) = 2
    /\ out[1][1] = <<1, 2>>
    /\ out[2][1] = <<3>>
    /\ Len(disk[1]["object_id"]) = 1

\* C7: no handle is open once the traversal has ended, whether it ran to the
\* end, raised, or was abandoned at a yield.
C7_HandlesReleased ==
    pc \in {"done", "error", "closed"} => handles = {}

\* the caller abandoned the sequence in the middle of the second shard
C7_Witness ==
    /\ pc = "closed"
    /\ j = 1
    /\ pos < Len(keys)
    /\ handles = {}

\* C8: without data files _split_generators raises and nothing is opened or
\* yielded; otherwise it returns one split generator per entry, in order,
\* with the entry's files as a list.
C8_SplitGenerators ==
    /\ Falsy(data_files) =>
           /\ pc \in {"configured", "config_error"}
           /\ splits = <<>> /\ disk = <<>> /\ out = <<>> /\ handles = {}
    /\ pc = "config_error" => (Falsy(data_files) /\ err = "ValueError")
    /\ (~Falsy(data_files) /\ pc # "configured") =>
           /\ Len(splits) = Len(data_files.items)
           /\ \A e \in 1..Len(splits) :
                  /\ splits[e].name = data_files.items[e].name
                  /\ splits[e].gen_kwargs.files =
                         (IF data_files.items[e].files.kind = "str"
                          THEN <<data_files.items[e].files.path>>
                          ELSE data_files.items[e].files.paths)

\* two entries, the first a single path
C8_Witness ==
    /\ pc = "split_done"
    /\ Len(splits) = 2
    /\ data_files.items[1].files.kind = "str"

\* C9 as stated: a shard that lacks a required column is never processed to
\* its end, whatever identifiers were requested from it.
C9_DeficientShardNeverCompletes ==
    \A n \in 1..Len(disk) : Deficient(disk[n]) => n > j

\* C9 as amended: a shard that lacks a required column yields no record, and
\* is processed to its end only when it holds an object_id column and no
\* identifier was supplied for it.
C9_DeficientShardYieldsNothing ==
    \A n \in 1..Len(disk) :
        Deficient(disk[n]) =>
            /\ n <= j => ("object_id" \in DOMAIN disk[n] /\ KeysOf(n) = <<>>)
            /\ n = j + 1 =>
                   /\ pc \in {"opened", "indexed", "error"}
                   /\ Len(out) = Supplied(j)

\* a shard lacking a column failed after an earlier shard had yielded
C9_Witness ==
    /\ pc = "error"
    /\ err = "KeyError"
    /\ j = 1
    /\ Len(disk) = 2
    /\ Deficient(disk[2])
    /\ Len(out) >= 1

\* p puts the rows of ids in ascending order
SortsAscending(p, ids) ==
    /\ Len(p) = Len(ids)
    /\ {p[q] : q \in 1..Len(p)} = 0..(Len(ids) - 1)
    /\ \A q \in 1..(Len(p) - 1) : ids[p[q] + 1] <= ids[p[q + 1] + 1]

\* C10: at most the current shard's handle is open; the index is built once
\* after the open and before the first lookup, and the index in use is the
\* index of the shard that is open.
C10_ShardLifecycle ==
    /\ Cardinality(handles) <= 1
    /\ pc = "loop" => handles = {}
    /\ pc \in {"opened", "indexed", "yielded"} => handles = {j}
    /\ pc = "opened" => builds = 0
    /\ pc \in {"indexed", "yielded"} =>
           /\ builds = 1
           /\ SortsAscending(sort_index, Ids)
           /\ sorted_ids = [q \in 1..Len(Ids) |-> Ids[sort_index[q] + 1]]

\* a lookup in the second shard, whose identifiers differ from the first's
C10_Witness ==
    /\ pc = "yielded"
    /\ j = 1
    /\ Len(disk[1]["object_id"]) = 1
    /\ disk[1]["object_id"] # Ids

====
